---- MODULE Spec2Model ----
(***************************************************************************)
(* Model of the qodo-plus VS Code extension (src/src/extension.ts): the    *)
(* generateTest command (precondition checks, credential resolution,       *)
(* placeholder substitution, first-run bootstrap of the Python             *)
(* environment, test-directory creation) and the supervision of the        *)
(* spawned cover-agent process (cancel / close / error handlers).          *)
(*                                                                         *)
(* The host is a single-threaded event loop: every action below is one     *)
(* job of that loop, i.e. the code of one handler from the point where it  *)
(* is entered up to its next await or its return.                          *)
(***************************************************************************)
EXTENDS Integers, Sequences, FiniteSets, TLC

(***************************************************************************)
(* Bounds of the model.                                                    *)
(***************************************************************************)
\* number of times the command 'qodo-plus.generateTest' is triggered
MaxRuns == 2
\* number of 'data' chunks each output stream of one child may deliver
MaxChunks == 2

Runs == 1..MaxRuns

(***************************************************************************)
(* JavaScript values: a setting or an environment variable is either       *)
(* undefined or a string / a number.                                       *)
(***************************************************************************)
Undefined == [type |-> "undefined"]

Str(s) == [type |-> "string", val |-> s]

Num(n) == [type |-> "number", val |-> n]

\* ToBoolean on an optional string: undefined and "" are falsy
Truthy(v) == v.type = "string" /\ v.val # ""

\* a || b for an optional string a and a string literal b
OrDefault(v, d) == IF Truthy(v) THEN v.val ELSE d

\* a ?? b for an optional number a and a number literal b
NullishDefault(v, d) == IF v.type = "undefined" THEN d ELSE v.val

(***************************************************************************)
(* Strings.  TLC strings support Len, \o and SubSeq; a character is a      *)
(* string of length one.                                                   *)
(***************************************************************************)
CharAt(s, i) == SubSeq(s, i, i)

StrFrom(s, i) == SubSeq(s, i, Len(s))

StartsWithAt(s, i, t) == /\ i + Len(t) - 1 <= Len(s)
                         /\ SubSeq(s, i, i + Len(t) - 1) = t

\* the least element of a non-empty set of numbers
Least(S) == CHOOSE j \in S : \A k \in S : j <= k

\* the first position >= i at which t occurs in s, or 0
IndexOf(s, t, i) ==
    LET at == {j \in i..Len(s) : StartsWithAt(s, j, t)}
    IN  IF at = {} THEN 0 ELSE Least(at)

\* String.prototype.includes
Contains(s, t) == IndexOf(s, t, 1) # 0

Digit(d) == CharAt("0123456789", d + 1)

RECURSIVE NatToString(_)
NatToString(n) == IF n < 10 THEN Digit(n)
                  ELSE NatToString(n \div 10) \o Digit(n % 10)

\* Number.prototype.toString() on an integer
NumToString(n) == IF n < 0 THEN "-" \o NatToString(0 - n) ELSE NatToString(n)

RECURSIVE JoinWith(_, _)
\* Array.prototype.join
JoinWith(segs, sep) ==
    IF Len(segs) = 0 THEN ""
    ELSE IF Len(segs) = 1 THEN segs[1]
    ELSE segs[1] \o sep \o JoinWith(Tail(segs), sep)

(***************************************************************************)
(* Node's path module, for the host platform (isWindows = win32 flavour).  *)
(***************************************************************************)
\* path.sep
PathSep(win) == IF win THEN "\\" ELSE "/"

\* the characters the path functions accept as separators
PathSeps(win) == IF win THEN {"/", "\\"} ELSE {"/"}

RECURSIVE SplitFrom(_, _, _)
\* the pieces of s from position i on, cut at the positions of the set at
SplitFrom(s, i, at) ==
    IF at = {} THEN << StrFrom(s, i) >>
    ELSE LET j == Least(at)
         IN  << SubSeq(s, i, j - 1) >> \o SplitFrom(s, j + 1, at \ {j})

\* String.prototype.split on one-character separators
Split(s, seps) == SplitFrom(s, 1, {j \in 1..Len(s) : CharAt(s, j) \in seps})

NonEmptySegs(segs) == SelectSeq(segs, LAMBDA x : x # "")

\* the drive prefix of a win32 path ("C:"), empty on posix
Device(p, win) ==
    IF win /\ Len(p) >= 2 /\ CharAt(p, 2) = ":" THEN SubSeq(p, 1, 2) ELSE ""

PathBody(p, win) == StrFrom(p, Len(Device(p, win)) + 1)

\* path.isAbsolute
IsAbsolute(p, win) ==
    LET body == PathBody(p, win)
    IN  Len(body) > 0 /\ CharAt(body, 1) \in PathSeps(win)

RECURSIVE NormSegs(_, _, _)
\* normalizeString: resolve "." and ".." segments
NormSegs(segs, acc, abs) ==
    IF Len(segs) = 0 THEN acc
    ELSE LET h == Head(segs)
         IN  IF h = "." THEN NormSegs(Tail(segs), acc, abs)
             ELSE IF h = ".."
                  THEN IF Len(acc) > 0 /\ acc[Len(acc)] # ".."
                       THEN NormSegs(Tail(segs), SubSeq(acc, 1, Len(acc) - 1), abs)
                       ELSE IF abs THEN NormSegs(Tail(segs), acc, abs)
                            ELSE NormSegs(Tail(segs), Append(acc, ".."), abs)
                  ELSE NormSegs(Tail(segs), Append(acc, h), abs)

PathSegs(p, win) ==
    NormSegs(NonEmptySegs(Split(PathBody(p, win), PathSeps(win))), <<>>,
             IsAbsolute(p, win))

\* path.normalize
Normalize(p, win) ==
    LET dev   == Device(p, win)
        abs   == IsAbsolute(p, win)
        trail == Len(p) > 0 /\ CharAt(p, Len(p)) \in PathSeps(win)
        core  == JoinWith(PathSegs(p, win), PathSep(win))
    IN  IF p = "" THEN "."
        ELSE IF core = ""
             THEN IF abs THEN dev \o PathSep(win)
                  ELSE dev \o (IF trail THEN "." \o PathSep(win) ELSE ".")
             ELSE dev \o (IF abs THEN PathSep(win) ELSE "") \o core
                      \o (IF trail THEN PathSep(win) ELSE "")

\* path.join(a, b)
PathJoin(a, b, win) ==
    IF a = "" /\ b = "" THEN "."
    ELSE IF a = "" THEN Normalize(b, win)
    ELSE IF b = "" THEN Normalize(a, win)
    ELSE Normalize(a \o PathSep(win) \o b, win)

\* path.join(a, b, c)
PathJoin3(a, b, c, win) == PathJoin(PathJoin(a, b, win), c, win)

RECURSIVE CommonPrefixLen(_, _)
CommonPrefixLen(a, b) ==
    IF Len(a) = 0 \/ Len(b) = 0 \/ Head(a) # Head(b) THEN 0
    ELSE 1 + CommonPrefixLen(Tail(a), Tail(b))

\* path.relative(from, to) for absolute paths
PathRelative(from, to, win) ==
    LET f   == PathSegs(from, win)
        t   == PathSegs(to, win)
        k   == CommonPrefixLen(f, t)
        ups == [j \in 1..(Len(f) - k) |-> ".."]
    IN  IF Device(from, win) # Device(to, win) THEN Normalize(to, win)
        ELSE JoinWith(ups \o SubSeq(t, k + 1, Len(t)), PathSep(win))

\* path.basename
Basename(p, win) ==
    LET segs == NonEmptySegs(Split(PathBody(p, win), PathSeps(win)))
    IN  IF Len(segs) = 0 THEN "" ELSE segs[Len(segs)]

RECURSIVE ScanEnd(_, _, _, _, _)
\* the backward scan of path.dirname: the 0-based index of the separator
\* that ends the directory part, or -1
ScanEnd(p, i, matchedSlash, lo, seps) ==
    IF i < lo THEN -1
    ELSE IF CharAt(p, i) \in seps
         THEN IF ~matchedSlash THEN i - 1
              ELSE ScanEnd(p, i - 1, TRUE, lo, seps)
         ELSE ScanEnd(p, i - 1, FALSE, lo, seps)

\* path.dirname
Dirname(p, win) ==
    LET seps    == PathSeps(win)
        hasRoot == IsAbsolute(p, win)
        rootEnd == Len(Device(p, win)) + (IF hasRoot THEN 1 ELSE 0)
        lo      == IF win THEN rootEnd + 1 ELSE 2
        end     == ScanEnd(p, Len(p), TRUE, lo, seps)
    IN  IF Len(p) = 0 THEN "."
        ELSE IF end = -1
             THEN IF rootEnd = 0 THEN "." ELSE SubSeq(p, 1, rootEnd)
             ELSE IF ~win /\ hasRoot /\ end = 1 THEN "//"
             ELSE SubSeq(p, 1, end)

\* src/src/extension.ts:77  p.split(path.sep).join('/')
toPosixPath(p, win) == JoinWith(Split(p, {PathSep(win)}), "/")

(***************************************************************************)
(* String.prototype.replace(/token/g, replacement) with a string           *)
(* replacement: every non-overlapping occurrence of the token, scanning    *)
(* left to right, is replaced by the expansion of the replacement, in      *)
(* which $$ stands for $, $& for the match, $` for the text before the     *)
(* match and $' for the text after it.                                     *)
(***************************************************************************)
RECURSIVE GetSubstitution(_, _, _, _, _)
GetSubstitution(rep, i, matched, before, after) ==
    LET d == IndexOf(rep, "$", i)
    IN  IF d = 0 \/ d = Len(rep) THEN StrFrom(rep, i)
        ELSE LET n == CharAt(rep, d + 1)
             IN  SubSeq(rep, i, d - 1) \o
                 (IF n = "$"
                  THEN "$" \o GetSubstitution(rep, d + 2, matched, before, after)
                  ELSE IF n = "&"
                  THEN matched \o GetSubstitution(rep, d + 2, matched, before, after)
                  ELSE IF n = "`"
                  THEN before \o GetSubstitution(rep, d + 2, matched, before, after)
                  ELSE IF n = "'"
                  THEN after \o GetSubstitution(rep, d + 2, matched, before, after)
                  ELSE "$" \o GetSubstitution(rep, d + 1, matched, before, after))

\* every position at which t occurs in s
Occurrences(s, t) == {j \in 1..Len(s) : StartsWithAt(s, j, t)}

RECURSIVE ReplaceFrom(_, _, _, _, _)
\* s from position i on, with the matches of tok at the positions of the set
\* at replaced, left to right and without overlap
ReplaceFrom(s, i, tok, rep, at) ==
    LET rest == {j \in at : j >= i}
    IN  IF rest = {} THEN StrFrom(s, i)
        ELSE LET m == Least(rest)
             IN  SubSeq(s, i, m - 1)
                     \o GetSubstitution(rep, 1, tok, SubSeq(s, 1, m - 1),
                                         StrFrom(s, m + Len(tok)))
                     \o ReplaceFrom(s, m + Len(tok), tok, rep, rest \ {m})

ReplaceAll(s, tok, rep) == ReplaceFrom(s, 1, tok, rep, Occurrences(s, tok))

\* the placeholder tokens
TokRelativeFilePath == "{relativeFilePath}"

TokFileName == "{fileName}"

TokSourceDir == "{sourceDir}"

TokTestFilePath == "{testFilePath}"

\* src/src/extension.ts:123-131  the chain applied to the two path templates
ResolvePathTpl(tpl, sourceRelPath, fileName, sourceDir) ==
    ReplaceAll(ReplaceAll(ReplaceAll(tpl, TokRelativeFilePath, sourceRelPath),
                          TokFileName, fileName),
               TokSourceDir, sourceDir)

\* src/src/extension.ts:133-135  the chain applied to the test command
ResolveTestCmd(tpl, finalTestPath, sourceDir) ==
    ReplaceAll(ReplaceAll(tpl, TokTestFilePath, finalTestPath),
               TokSourceDir, sourceDir)

(***************************************************************************)
(* Credential resolution, src/src/extension.ts:85-104.                     *)
(***************************************************************************)
possibleEnvKeys == << "OPENAI_API_KEY", "FIREWORKS_AI_API_KEY",
                      "DEEPSEEK_API_KEY", "ANTHROPIC_API_KEY",
                      "GEMINI_API_KEY", "GROQ_API_KEY", "QODO_API_KEY" >>

\* the variables of process.env the model tracks
EnvNames == { possibleEnvKeys[k] : k \in 1..Len(possibleEnvKeys) }
                \cup { "OPENAI_BASE_URL", "PATH" }

RECURSIVE EnvKeyLoop_noBreak(_, _)
\* the loop without its break: the last non-empty variable wins
EnvKeyLoop_noBreak(env, k) ==
    IF k > Len(possibleEnvKeys) THEN Undefined
    ELSE LET later == EnvKeyLoop_noBreak(env, k + 1)
         IN  IF later # Undefined THEN later
             ELSE IF Truthy(env[possibleEnvKeys[k]]) THEN env[possibleEnvKeys[k]]
             ELSE Undefined

RECURSIVE EnvKeyLoop(_, _)
\* for (const envKey of possibleEnvKeys) { if (process.env[envKey]) {...; break;} }
\* started at index k; Undefined when the loop ends without an assignment
EnvKeyLoop(env, k) ==
    IF k > Len(possibleEnvKeys) THEN Undefined
    ELSE IF Truthy(env[possibleEnvKeys[k]]) THEN env[possibleEnvKeys[k]]
    ELSE EnvKeyLoop(env, k + 1)

\* the value of apiKey after lines 95-104
ResolveApiKey(setting, env) ==
    IF ~Truthy(setting)
    THEN LET found == EnvKeyLoop(env, 1)
         IN  IF found = Undefined THEN setting ELSE found
    ELSE setting

(***************************************************************************)
(* The state.                                                              *)
(***************************************************************************)
VARIABLES
    isWindows,        \* os.platform() === 'win32'
    editor,           \* vscode.window.activeTextEditor: Undefined or the file's absolute path
    workspaceFolders, \* vscode.workspace.workspaceFolders: Undefined or the first folder's path
    config,           \* the settings under 'qodoPlus'
    processEnv,       \* process.env
    extensionPath,    \* context.extensionPath
    fsExe,            \* fs.existsSync(coverAgentPath)
    fsDirs,           \* the directories that exist
    pc,               \* per run: where the command is
    inv,              \* per run: the values the handler computed (lines 75-135)
    isSetupSuccess,   \* per run: the result of setupPythonEnvironment
    execLog,          \* per run: the commands handed to execAsync
    effects,          \* per run: the reads and side effects performed so far
    child,            \* per run: the state of the spawned child process
    spawnOpts,        \* per run: the arguments of spawn()
    cancelRequested,  \* per run: token.isCancellationRequested
    resolved,         \* per run: resolve() of the withProgress promise was called
    killSent,         \* per run: childProcess.kill() delivered its signal
    exitCode,         \* per run: the code of the child's 'close' event
    chunks,           \* per run: the number of chunks each stream has produced
    notes,            \* per run: the notifications shown to the user
    log               \* per run: the lines of the output channel "Qodo Cover"
                      \* that the run wrote, in the order it wrote them

hostVars == << isWindows, editor, workspaceFolders, config, processEnv,
               extensionPath >>

vars == << isWindows, editor, workspaceFolders, config, processEnv,
           extensionPath, fsExe, fsDirs, pc, inv, isSetupSuccess, execLog,
           effects, child, spawnOpts, cancelRequested, resolved, killSent,
           exitCode, chunks, notes, log >>

SettingNames == { "apiKey", "model", "baseUrl", "sourceFilePath",
                  "testFilePath", "codeCoverageReportPath", "testCommand",
                  "coverageType", "desiredCoverage", "maxIterations",
                  "maxFixAttempts" }

\* a configuration in which no setting is set
NoSettings == [n \in SettingNames |-> Undefined]

\* an environment in which no tracked variable is set
NoEnv == [n \in EnvNames |-> Undefined]

Null == [type |-> "null"]

None == [none |-> TRUE]

\* vscode.window.show{Information,Warning,Error}Message
Note(level, kind, detail) == [level |-> level, kind |-> kind, detail |-> detail]

\* a piece of text in the output channel: src is "ext" for a line the
\* extension wrote, "stdout" or "stderr" for a chunk of the child's output
Line(i, src, text) == [src |-> src, text |-> text]

(***************************************************************************)
(* The paths of the bootstrap, src/src/extension.ts:11-18 and 153-159.     *)
(***************************************************************************)
qodoCoverDir == PathJoin3(extensionPath, "python_service", "qodo-cover", isWindows)

venvRoot == PathJoin(qodoCoverDir, "venv", isWindows)

coverAgentPath ==
    PathJoin3(venvRoot, IF isWindows THEN "Scripts" ELSE "bin",
              IF isWindows THEN "cover-agent.exe" ELSE "cover-agent", isWindows)

pythonCmd == IF isWindows THEN "py" ELSE "python3"

venvCommand == pythonCmd \o " -3.11 -m venv venv"

pipCmd == IF isWindows THEN PathJoin3("venv", "Scripts", "pip", TRUE)
          ELSE PathJoin3("venv", "bin", "pip", FALSE)

pipCommand == pipCmd \o " install -e ."

(***************************************************************************)
(* The values generateTest computes between the precondition checks and    *)
(* the call of setupPythonEnvironment, src/src/extension.ts:75-135.        *)
(***************************************************************************)
\* src/src/extension.ts:63  !editor
NoEditor == editor = Undefined

\* the command without its workspace check
NoWorkspace_unchecked == FALSE

\* src/src/extension.ts:69  !workspaceFolders
NoWorkspace == workspaceFolders = Undefined

\* src/src/extension.ts:75-76  workspaceFolders[0].uri.fsPath and
\* editor.document.fileName, read after the two checks above
FsPath(v) == IF v = Undefined THEN "" ELSE v.val

ResolvedInvocation ==
    LET workspaceRoot   == FsPath(workspaceFolders)
        sourceAbsPath   == FsPath(editor)
        sourceRelPath   == toPosixPath(PathRelative(workspaceRoot, sourceAbsPath,
                                                    isWindows), isWindows)
        fileName        == Basename(sourceAbsPath, isWindows)
        sourceDir       == toPosixPath(Dirname(sourceRelPath, isWindows), isWindows)
        apiKey          == ResolveApiKey(config.apiKey, processEnv)
        model           == OrDefault(config.model, "deepseek/deepseek-chat")
        baseUrl         == OrDefault(config.baseUrl, "https://api.deepseek.com")
        sourcePathTpl   == OrDefault(config.sourceFilePath, "{relativeFilePath}")
        testPathTpl     == OrDefault(config.testFilePath, "tests/test_{fileName}")
        reportPath      == OrDefault(config.codeCoverageReportPath, "coverage.xml")
        testCmdTpl      == OrDefault(config.testCommand,
            "pytest {testFilePath} --cov={sourceDir} --cov-branch --cov-report=xml --cov-report=html")
        coverageType    == OrDefault(config.coverageType, "cobertura")
        desiredCoverage == NullishDefault(config.desiredCoverage, 100)
        maxIterations   == NullishDefault(config.maxIterations, 3)
        maxFixAttempts  == NullishDefault(config.maxFixAttempts, 1)
        finalSourcePath == ResolvePathTpl(sourcePathTpl, sourceRelPath, fileName, sourceDir)
        finalTestPath   == ResolvePathTpl(testPathTpl, sourceRelPath, fileName, sourceDir)
        finalTestCommand == ResolveTestCmd(testCmdTpl, finalTestPath, sourceDir)
    IN  [ workspaceRoot    |-> workspaceRoot,
          sourceRelPath    |-> sourceRelPath,
          fileName         |-> fileName,
          sourceDir        |-> sourceDir,
          apiKey           |-> apiKey,
          baseUrl          |-> baseUrl,
          sourcePathTpl    |-> sourcePathTpl,
          testPathTpl      |-> testPathTpl,
          testCmdTpl       |-> testCmdTpl,
          finalSourcePath  |-> finalSourcePath,
          finalTestPath    |-> finalTestPath,
          finalTestCommand |-> finalTestCommand,
          desiredCoverage  |-> desiredCoverage,
          args |-> << "--model", model,
                      "--source-file-path", finalSourcePath,
                      "--test-file-path", finalTestPath,
                      "--code-coverage-report-path", reportPath,
                      "--test-command", finalTestCommand,
                      "--coverage-type", coverageType,
                      "--desired-coverage", NumToString(desiredCoverage),
                      "--max-iterations", NumToString(maxIterations),
                      "--max-fix-attempts", NumToString(maxFixAttempts) >> ]

\* src/src/extension.ts:142
testDirAbs(i) == PathJoin(inv[i].workspaceRoot,
                          Dirname(inv[i].finalTestPath, isWindows), isWindows)

(***************************************************************************)
(* The command 'qodo-plus.generateTest'.                                   *)
(***************************************************************************)
\* the existence check made for the win32 layout on every platform
ExecutableExists_win32Only == fsExe /\ isWindows

\* src/src/extension.ts:20  fs.existsSync(coverAgentPath)
ExecutableExists == fsExe

\* the check written as apiKey === undefined
MissingApiKey_undefinedOnly(apiKey) == apiKey = Undefined

\* src/src/extension.ts:106  !apiKey
MissingApiKey(apiKey) == ~Truthy(apiKey)

Show(i, n) == [notes EXCEPT ![i] = Append(@, n)]

\* the channel putting new text in front of what it holds
Write_prepend(i, lines) == [log EXCEPT ![i] = lines \o @]

\* outputChannel.append / appendLine by run i.  The channel is one object
\* shared by all runs; the model keeps its content as one sequence per run
\* that wrote it, so the order between lines of different runs is not
\* recorded.
Write(i, lines) == [log EXCEPT ![i] = @ \o lines]

\* outputChannel.clear() followed by the lines run i writes
ClearAndWrite(i, lines) == [j \in Runs |-> IF j = i THEN lines ELSE << >>]

Did(i, es) == [effects EXCEPT ![i] = @ \cup es]

\* src/src/extension.ts:61-137 and, inside setupPythonEnvironment, 10-35:
\* the command from its trigger to its first await.  Run i is the i-th
\* trigger of the command.
Trigger(i) ==
    /\ pc[i] = "idle"
    /\ \A j \in Runs : j < i => pc[j] # "idle"
    /\ IF NoEditor
       THEN /\ notes' = Show(i, Note("error", "noEditor", "Open a Python code file first"))
            /\ pc' = [pc EXCEPT ![i] = "done"]
            /\ UNCHANGED << inv, effects, log, isSetupSuccess, execLog >>
       ELSE IF NoWorkspace
       THEN /\ notes' = Show(i, Note("error", "noWorkspace", "You need to open the project folder"))
            /\ pc' = [pc EXCEPT ![i] = "done"]
            /\ UNCHANGED << inv, effects, log, isSetupSuccess, execLog >>
       ELSE LET r     == ResolvedInvocation
                reads == {"config"} \cup (IF Truthy(config.apiKey) THEN {} ELSE {"env"})
            IN  IF MissingApiKey(r.apiKey)
                THEN /\ notes' = Show(i, Note("error", "noApiKey",
                            "Please configure the API Key in Settings or environment variables."))
                     /\ effects' = Did(i, reads)
                     /\ pc' = [pc EXCEPT ![i] = "done"]
                     /\ UNCHANGED << inv, log, isSetupSuccess, execLog >>
                ELSE /\ inv' = [inv EXCEPT ![i] = r]
                     /\ IF ExecutableExists
                        THEN \* setupPythonEnvironment: line 20-22
                             /\ isSetupSuccess' = [isSetupSuccess EXCEPT ![i] = TRUE]
                             /\ effects' = Did(i, reads)
                             /\ pc' = [pc EXCEPT ![i] = "setupReturned"]
                             /\ UNCHANGED << log, execLog, notes >>
                        ELSE \* setupPythonEnvironment: line 24-35
                             /\ effects' = Did(i, reads \cup {"setupProgress"})
                             /\ log' = Write(i, << Line(i, "ext",
                                    "[INFO] Creating a Virtual Environment (venv)") >>)
                             /\ execLog' = [execLog EXCEPT ![i] = Append(@, venvCommand)]
                             /\ pc' = [pc EXCEPT ![i] = "venv"]
                             /\ UNCHANGED << isSetupSuccess, notes >>
    /\ UNCHANGED << hostVars, fsExe, fsDirs, child, spawnOpts, cancelRequested,
                    resolved, killSent, exitCode, chunks >>

\* src/src/extension.ts:51-55  the catch block of setupPythonEnvironment
SetupFailed(i, message) ==
    /\ notes' = Show(i, Note("error", "setupError",
           "Environment setup error: Please check if Python is installed on your machine"))
    /\ log' = Write(i, << Line(i, "ext", "[ERROR] " \o message) >>)
    /\ isSetupSuccess' = [isSetupSuccess EXCEPT ![i] = FALSE]
    /\ pc' = [pc EXCEPT ![i] = "setupReturned"]

\* src/src/extension.ts:35-42  the venv command has ended: on success the
\* function goes on to start pip, on failure to its catch block
VenvDone(i) ==
    /\ pc[i] = "venv"
    /\ \E ok \in BOOLEAN :
         IF ok
         THEN /\ effects' = Did(i, {"progressReport"})
              /\ log' = Write(i, << Line(i, "ext", "[INFO] Running pip install -e .") >>)
              /\ execLog' = [execLog EXCEPT ![i] = Append(@, pipCommand)]
              /\ fsDirs' = fsDirs \cup {venvRoot}
              /\ pc' = [pc EXCEPT ![i] = "pip"]
              /\ UNCHANGED << notes, isSetupSuccess >>
         ELSE /\ SetupFailed(i, "Command failed: " \o venvCommand)
              /\ UNCHANGED << effects, execLog, fsDirs >>
    /\ UNCHANGED << hostVars, fsExe, inv, child, spawnOpts, cancelRequested,
                    resolved, killSent, exitCode, chunks >>

\* src/src/extension.ts:42-49  the pip command has ended.  The function
\* looks at nothing but the command's exit status: whether the install left
\* the cover-agent script at coverAgentPath depends on the project that was
\* installed (installed), and is not looked at again.
PipDone(i) ==
    /\ pc[i] = "pip"
    /\ \E ok \in BOOLEAN, warn \in BOOLEAN, installed \in BOOLEAN :
         IF ok
         THEN /\ log' = Write(i, << Line(i, "ext", "pip stdout") >>
                            \o (IF warn THEN << Line(i, "ext", "[WARN] pip stderr") >>
                                ELSE << >>)
                            \o << Line(i, "ext", "[INFO] Python environment setup complete") >>)
              /\ notes' = Show(i, Note("info", "setupComplete",
                     "Qodo Plus: Environment setup complete. Starting test generation"))
              /\ isSetupSuccess' = [isSetupSuccess EXCEPT ![i] = TRUE]
              /\ fsExe' = (fsExe \/ installed)
              /\ pc' = [pc EXCEPT ![i] = "setupReturned"]
         ELSE /\ ~warn /\ ~installed
              /\ SetupFailed(i, "Command failed: " \o pipCommand)
              /\ UNCHANGED fsExe
    /\ UNCHANGED << hostVars, fsDirs, inv, execLog, effects, child, spawnOpts,
                    cancelRequested, resolved, killSent, exitCode, chunks >>

\* spawn() given an environment of the two synthesized variables alone
SpawnOptions_bareEnv(i) ==
    [ file  |-> coverAgentPath,
      args  |-> inv[i].args,
      cwd   |-> inv[i].workspaceRoot,
      env   |-> [NoEnv EXCEPT !["OPENAI_API_KEY"] = inv[i].apiKey,
                              !["OPENAI_BASE_URL"] = Str(inv[i].baseUrl)],
      shell |-> FALSE ]

\* src/src/extension.ts:187-195  the options of spawn()
SpawnOptions(i) ==
    [ file  |-> coverAgentPath,
      args  |-> inv[i].args,
      cwd   |-> inv[i].workspaceRoot,
      env   |-> [processEnv EXCEPT !["OPENAI_API_KEY"] = inv[i].apiKey,
                                   !["OPENAI_BASE_URL"] = Str(inv[i].baseUrl)],
      shell |-> FALSE ]

\* the command going on whatever setupPythonEnvironment returned
NotSetupSuccess_ignored(i) == FALSE

\* src/src/extension.ts:138  !isSetupSuccess
NotSetupSuccess(i) == ~isSetupSuccess[i]

\* src/src/extension.ts:138-206  the command after setupPythonEnvironment
\* has returned: it gives up, or makes sure of the test directory and spawns
\* the child.  A missing executable makes the spawn fail; an existing one
\* may still fail to start.
AfterSetup(i) ==
    /\ pc[i] = "setupReturned"
    /\ IF NotSetupSuccess(i)
       THEN /\ pc' = [pc EXCEPT ![i] = "done"]
            /\ UNCHANGED << fsDirs, effects, notes, log, child, spawnOpts >>
       ELSE LET dir     == testDirAbs(i)
                mkdir   == dir \notin fsDirs
                started == << Line(i, "ext", "[INFO] Start running Qodo Cover"),
                              Line(i, "ext", "[CMD] \"" \o coverAgentPath \o "\" "
                                             \o JoinWith(inv[i].args, " ")) >>
                options == SpawnOptions(i)
            IN  \E mkOk \in BOOLEAN, spawnOk \in BOOLEAN :
                /\ mkdir \/ mkOk
                /\ fsExe \/ ~spawnOk
                /\ IF mkdir /\ ~mkOk
                   THEN /\ ~spawnOk
                        /\ notes' = Show(i, Note("error", "mkdirError",
                               "Unable to create test folder: EACCES"))
                        /\ effects' = Did(i, {"mkdirTried"})
                        /\ pc' = [pc EXCEPT ![i] = "done"]
                        /\ UNCHANGED << fsDirs, log, child, spawnOpts >>
                   ELSE /\ fsDirs' = fsDirs \cup {dir}
                        /\ effects' = Did(i, (IF mkdir THEN {"mkdirTried", "mkdir"} ELSE {})
                                              \cup {"runProgress", "spawn"})
                        /\ log' = ClearAndWrite(i, started)
                        /\ spawnOpts' = [spawnOpts EXCEPT ![i] = options]
                        /\ child' = [child EXCEPT ![i] =
                                        IF spawnOk THEN "running" ELSE "spawnError"]
                        /\ pc' = [pc EXCEPT ![i] = "spawned"]
                        /\ UNCHANGED notes
    /\ UNCHANGED << hostVars, fsExe, inv, isSetupSuccess, execLog,
                    cancelRequested, resolved, killSent, exitCode, chunks >>

(***************************************************************************)
(* The supervision of the child, src/src/extension.ts:198-227.  The child  *)
(* and the user are the environment: Node delivers the child's events, the *)
(* user presses Cancel on the progress notification.                       *)
(***************************************************************************)
\* the exit codes a child that was started can close with: 0, non-zero, and
\* null when a signal ended it
ExitCodes == {Num(0), Num(1), Null}

\* the code of the 'close' event that follows a failed spawn (-ENOENT)
SpawnErrorCode == Num(-2)

\* `${code}`
CodeText(code) == IF code = Null THEN "null" ELSE NumToString(code.val)

\* src/src/extension.ts:205-206  a 'data' event of one of the two streams:
\* the chunk is appended to the output channel
StreamData(i, stream) ==
    /\ pc[i] = "spawned"
    /\ child[i] = "running"
    /\ chunks[i][stream] < MaxChunks
    /\ chunks' = [chunks EXCEPT ![i][stream] = @ + 1]
    /\ log' = Write(i, << Line(i, stream, NumToString(chunks[i][stream] + 1)) >>)
    /\ UNCHANGED << hostVars, fsExe, fsDirs, pc, inv, isSetupSuccess, execLog,
                    effects, child, spawnOpts, cancelRequested, resolved,
                    killSent, exitCode, notes >>

StdoutData(i) == StreamData(i, "stdout")

StderrData(i) == StreamData(i, "stderr")

\* src/src/extension.ts:223-227  the body of the 'error' handler
ErrorNotes(message) == << Note("error", "launchError", "Launch error: " \o message) >>

ErrorLines(i, message) == << Line(i, "ext", "[FATAL] " \o message) >>

\* the 'error' event Node emits, on the next tick, after a failed spawn
ChildError(i) ==
    /\ pc[i] = "spawned"
    /\ child[i] = "spawnError"
    /\ notes' = [notes EXCEPT ![i] = @ \o ErrorNotes("spawn " \o coverAgentPath \o " ENOENT")]
    /\ log' = Write(i, ErrorLines(i, "spawn " \o coverAgentPath \o " ENOENT"))
    /\ resolved' = [resolved EXCEPT ![i] = TRUE]
    /\ child' = [child EXCEPT ![i] = "errored"]
    /\ UNCHANGED << hostVars, fsExe, fsDirs, pc, inv, isSetupSuccess, execLog,
                    effects, spawnOpts, cancelRequested, killSent, exitCode, chunks >>

\* the handler with the test written as !code: null counts as success
CloseNote_falsy(code) ==
    IF code = Num(0) \/ code = Null
    THEN Note("info", "success", "Qodo Plus: Successfully completed test generation")
    ELSE Note("error", "exitCode",
              "Qodo Plus: Error (Code: " \o CodeText(code) \o "). Check output for details")

\* src/src/extension.ts:213-219  what the 'close' handler shows for a code
CloseNote(code) ==
    IF code = Num(0)
    THEN Note("info", "success", "Qodo Plus: Successfully completed test generation")
    ELSE Note("error", "exitCode",
              "Qodo Plus: Error (Code: " \o CodeText(code) \o "). Check output for details")

\* src/src/extension.ts:213-219  what the 'close' handler writes for a code
CloseLine(i, code) ==
    IF code = Num(0)
    THEN Line(i, "ext", "\n[DONE] Complete.")
    ELSE Line(i, "ext", "\n[ERROR] Exit code: " \o CodeText(code))

\* the 'close' handler returning early whether or not the run was cancelled
CloseSuppressed_always(i) == TRUE

\* src/src/extension.ts:209  the guard of the 'close' handler
CloseSuppressed(i) == cancelRequested[i]

\* src/src/extension.ts:208-221  the 'close' event: of a child that ran,
\* with its exit code, or after a failed spawn, with the error number
ChildClose(i) ==
    /\ pc[i] = "spawned"
    /\ child[i] \in {"running", "errored"}
    /\ \E code \in ExitCodes \cup {SpawnErrorCode} :
         /\ (child[i] = "errored") <=> (code = SpawnErrorCode)
         /\ exitCode' = [exitCode EXCEPT ![i] = code]
         /\ IF CloseSuppressed(i)
            THEN UNCHANGED << notes, log, resolved >>
            ELSE /\ notes' = Show(i, CloseNote(code))
                 /\ log' = Write(i, << CloseLine(i, code) >>)
                 /\ resolved' = [resolved EXCEPT ![i] = TRUE]
    /\ child' = [child EXCEPT ![i] = "closed"]
    /\ UNCHANGED << hostVars, fsExe, fsDirs, pc, inv, isSetupSuccess, execLog,
                    effects, spawnOpts, cancelRequested, killSent, chunks >>

\* what childProcess.kill() can do to a child that was started: deliver the
\* signal, find the process already gone (no effect), or fail, in which case
\* Node emits 'error' on the child from inside kill()
KillOutcomes == {"delivered", "gone", "failed"}

\* src/src/extension.ts:198-203  the user cancels.  The progress
\* notification, and with it the Cancel button, exists while the promise of
\* line 185 is pending; the 'error' of a failed spawn is emitted on the next
\* tick, before any user event.
Cancel(i) ==
    /\ pc[i] = "spawned"
    /\ ~resolved[i]
    /\ ~cancelRequested[i]
    /\ child[i] = "running"
    /\ cancelRequested' = [cancelRequested EXCEPT ![i] = TRUE]
    /\ \E k \in KillOutcomes :
         /\ killSent' = [killSent EXCEPT ![i] = (k = "delivered")]
         /\ notes' = [notes EXCEPT ![i] =
                @ \o (IF k = "failed" THEN ErrorNotes("kill EPERM") ELSE << >>)
                  \o << Note("warning", "cancelled",
                        "Qodo Plus: The test generation process has been cancelled") >>]
         /\ log' = Write(i, (IF k = "failed" THEN ErrorLines(i, "kill EPERM") ELSE << >>)
                       \o << Line(i, "ext", "\n[WARN] Process cancelled by user") >>)
    /\ resolved' = [resolved EXCEPT ![i] = TRUE]
    /\ UNCHANGED << hostVars, fsExe, fsDirs, pc, inv, isSetupSuccess, execLog,
                    effects, child, spawnOpts, exitCode, chunks >>

(***************************************************************************)
(* Initial states and specifications.                                      *)
(***************************************************************************)
\* the state of every run before the command is triggered
InitRuns ==
    /\ pc = [i \in Runs |-> "idle"]
    /\ inv = [i \in Runs |-> None]
    /\ isSetupSuccess = [i \in Runs |-> FALSE]
    /\ execLog = [i \in Runs |-> << >>]
    /\ effects = [i \in Runs |-> {}]
    /\ child = [i \in Runs |-> "none"]
    /\ spawnOpts = [i \in Runs |-> None]
    /\ cancelRequested = [i \in Runs |-> FALSE]
    /\ resolved = [i \in Runs |-> FALSE]
    /\ killSent = [i \in Runs |-> FALSE]
    /\ exitCode = [i \in Runs |-> None]
    /\ chunks = [i \in Runs |-> [stream \in {"stdout", "stderr"} |-> 0]]
    /\ notes = [i \in Runs |-> << >>]
    /\ log = [i \in Runs |-> << >>]

\* a process environment in which each of the seven variables is set to ""
EmptyKeysEnv == [n \in EnvNames |-> IF n \in {"OPENAI_BASE_URL", "PATH"}
                                    THEN Undefined ELSE Str("")]

\* the hosts of the lifecycle specification: a POSIX host with the workspace
\* /ws and the file /ws/app/calc.py open, all settings at their defaults
\* except the credential.  The editor, the workspace or the credential may
\* be missing; the credential comes from the setting or from QODO_API_KEY.
Init ==
    /\ isWindows = FALSE
    /\ extensionPath = "/ext"
    /\ editor \in {Undefined, Str("/ws/app/calc.py")}
    /\ workspaceFolders \in {Undefined, Str("/ws")}
    /\ \E cred \in { << Undefined, NoEnv >>, << Str(""), NoEnv >>,
                     << Undefined, EmptyKeysEnv >>, << Str(""), EmptyKeysEnv >>,
                     << Str("sk-setting"), NoEnv >>,
                     << Str(""), [NoEnv EXCEPT !["QODO_API_KEY"] = Str("sk-qodo")] >> } :
         /\ config = [NoSettings EXCEPT !.apiKey = cred[1]]
         /\ processEnv = [cred[2] EXCEPT !["PATH"] = Str("/usr/bin")]
    /\ fsExe \in BOOLEAN
    /\ fsDirs = {"/ws"}
    /\ InitRuns

Next ==
    \E i \in Runs :
        \/ Trigger(i)
        \/ VenvDone(i)
        \/ PipDone(i)
        \/ AfterSetup(i)
        \/ StdoutData(i)
        \/ StderrData(i)
        \/ ChildError(i)
        \/ ChildClose(i)
        \/ Cancel(i)

Spec == Init /\ [][Next]_vars

\* the commands alone, from their triggers to the spawn of their children:
\* the events of the children and the cancellation are left out
NextBoot ==
    \E i \in Runs :
        \/ Trigger(i)
        \/ VenvDone(i)
        \/ PipDone(i)
        \/ AfterSetup(i)

SpecBoot == Init /\ [][NextBoot]_vars

\* the supervision of one child, that of the first run, while a second
\* command is triggered and runs up to its spawn.  The handlers of a run are
\* closures over that run's childProcess, token and resolve; what runs share
\* is the output channel and the file system, which the second command acts
\* on here.
NextRun ==
    \/ \E i \in {1, 2} :
          \/ Trigger(i)
          \/ VenvDone(i)
          \/ PipDone(i)
          \/ AfterSetup(i)
    \/ StdoutData(1)
    \/ StderrData(1)
    \/ ChildError(1)
    \/ ChildClose(1)
    \/ Cancel(1)

SpecRun == Init /\ [][NextRun]_vars

\* one command from its trigger to the end of its child, on a host where it
\* gets past its checks: a file is open in a workspace and the apiKey
\* setting holds the credential
InitLive ==
    /\ Init
    /\ ~NoEditor /\ ~NoWorkspace
    /\ config.apiKey = Str("sk-setting")

NextLive ==
    \/ Trigger(1)
    \/ VenvDone(1)
    \/ PipDone(1)
    \/ AfterSetup(1)
    \/ StdoutData(1)
    \/ StderrData(1)
    \/ ChildError(1)
    \/ ChildClose(1)
    \/ Cancel(1)

\* the step of ChildError(1), told by what it does to child: no other
\* action takes the child from spawnError to errored
ErrorEmitted ==
    /\ pc[1] = "spawned" /\ child[1] = "spawnError"
    /\ child' = [child EXCEPT ![1] = "errored"]

\* the step of ChildClose(1) after a failed spawn, told by what it does to
\* child
CloseEmitted ==
    /\ pc[1] = "spawned" /\ child[1] = "errored"
    /\ child' = [child EXCEPT ![1] = "closed"]

\* What the event loop guarantees to the supervision of a child: the
\* 'error' event of a failed spawn is emitted on the next tick and the
\* 'close' event follows it.  When a child that was started ends, if at
\* all, is up to the child and to the signals it receives: nothing is
\* assumed about it, nor about the user.
FairLive ==
    /\ WF_child(ErrorEmitted)
    /\ WF_child(CloseEmitted)

SpecLive == InitLive /\ [][NextLive]_vars /\ FairLive

(***************************************************************************)
(* The specification of credential resolution: a host with an open file    *)
(* and workspace and an installed executable; the apiKey setting and each  *)
(* of the seven variables is unset, empty or set to a value of its own.    *)
(***************************************************************************)
KeyValue(n, c) == IF c = 0 THEN Undefined ELSE IF c = 1 THEN Str("") ELSE Str("sk-" \o n)

CredEnvs ==
    { [n \in EnvNames |-> IF n \in DOMAIN f THEN KeyValue(n, f[n]) ELSE Undefined]
        : f \in [EnvNames \ {"OPENAI_BASE_URL", "PATH"} -> 0..2] }

InitCred ==
    /\ isWindows = FALSE
    /\ extensionPath = "/ext"
    /\ editor = Str("/ws/app/calc.py")
    /\ workspaceFolders = Str("/ws")
    /\ config \in { [NoSettings EXCEPT !.apiKey = KeyValue("setting", c)] : c \in 0..2 }
    /\ processEnv \in CredEnvs
    /\ fsExe = TRUE
    /\ fsDirs = {"/ws"}
    /\ InitRuns

NextCred == \E i \in Runs : Trigger(i)

SpecCred == InitCred /\ [][NextCred]_vars

(***************************************************************************)
(* The specification of placeholder resolution: a POSIX host with a        *)
(* credential and an installed executable; the open file and the three     *)
(* templates vary.  File and directory names may contain braces and        *)
(* dollar signs.                                                           *)
(***************************************************************************)
ResolveFiles == { "/ws/app/calc.py", "/ws/calc.py", "/ws/pkg/{sourceDir}.py",
                  "/ws/{fileName}/mod.py", "/ws/lib/a$&b.py", "/other/x.py" }

SourceTemplates == { Undefined, Str("{sourceDir}/{fileName}"),
                     Str("src/{relativeFilePath}:{relativeFilePath}") }

TestTemplates == { Undefined, Str("{sourceDir}/tests/test_{fileName}"),
                   Str("tests/{relativeFilePath}"), Str("../out/test_{fileName}") }

CommandTemplates == { Undefined, Str("pytest {testFilePath} -k {testFilePath}"),
                      Str("python -m pytest {sourceDir}") }

InitResolve ==
    /\ isWindows = FALSE
    /\ extensionPath = "/ext"
    /\ editor \in { Str(f) : f \in ResolveFiles }
    /\ workspaceFolders = Str("/ws")
    /\ config \in { [NoSettings EXCEPT !.apiKey = Str("sk-setting"),
                                       !.sourceFilePath = a,
                                       !.testFilePath = b,
                                       !.testCommand = c]
                      : a \in SourceTemplates, b \in TestTemplates,
                        c \in CommandTemplates }
    /\ processEnv = [NoEnv EXCEPT !["PATH"] = Str("/usr/bin")]
    /\ fsExe = TRUE
    /\ fsDirs = {"/ws"}
    /\ InitRuns

NextResolve == \E i \in Runs : Trigger(i) \/ AfterSetup(i)

SpecResolve == InitResolve /\ [][NextResolve]_vars

(***************************************************************************)
(* The specification of the default layout: no template is configured; the *)
(* host is POSIX or win32, and the open file lies in a directory below the *)
(* workspace root.  Names are plain, or hold a dollar pattern or a token.  *)
(***************************************************************************)
\* workspaceFolders[0].uri.fsPath on the host
LayoutRoot(win) == IF win THEN "C:\\proj" ELSE "/ws"

\* the directories of the open file below the root, as sequences of names
LayoutDirs == { << "app" >>, << "pkg", "sub" >>, << "{fileName}" >> }

\* the base names of the open file
LayoutNames == { "calc.py", "mod.py", "a$&b.py" }

\* editor.document.fileName of the file named f in directory d
LayoutFile(d, f, win) ==
    LayoutRoot(win) \o PathSep(win) \o JoinWith(d, PathSep(win)) \o PathSep(win) \o f

InitLayout ==
    /\ isWindows \in BOOLEAN
    /\ extensionPath = (IF isWindows THEN "C:\\ext" ELSE "/ext")
    /\ workspaceFolders = Str(LayoutRoot(isWindows))
    /\ editor \in { Str(LayoutFile(d, f, isWindows)) : d \in LayoutDirs, f \in LayoutNames }
    /\ config = [NoSettings EXCEPT !.apiKey = Str("sk-setting")]
    /\ processEnv = [NoEnv EXCEPT !["PATH"] = Str("/usr/bin")]
    /\ fsExe \in BOOLEAN
    /\ fsDirs = {LayoutRoot(isWindows)}
    /\ InitRuns

NextLayout == \E i \in Runs : Trigger(i) \/ AfterSetup(i)

SpecLayout == InitLayout /\ [][NextLayout]_vars

(***************************************************************************)
(* The specification of the child's environment: the credential comes from *)
(* the setting or from a variable, the baseUrl setting is unset, empty or  *)
(* set, and the process environment may already hold OPENAI_API_KEY and    *)
(* OPENAI_BASE_URL.                                                        *)
(***************************************************************************)
InheritedEnvs ==
    { [NoEnv EXCEPT !["PATH"] = Str("/usr/bin"),
                    !["OPENAI_API_KEY"] = a,
                    !["QODO_API_KEY"] = q,
                    !["OPENAI_BASE_URL"] = u]
        : a \in {Undefined, Str("sk-inherited")},
          q \in {Undefined, Str("sk-qodo")},
          u \in {Undefined, Str("https://inherited.example")} }

InitEnv ==
    /\ isWindows = FALSE
    /\ extensionPath = "/ext"
    /\ editor = Str("/ws/app/calc.py")
    /\ workspaceFolders = Str("/ws")
    /\ config \in { [NoSettings EXCEPT !.apiKey = k, !.baseUrl = b]
                      : k \in {Undefined, Str("sk-setting")},
                        b \in {Undefined, Str(""), Str("https://proxy.example/v1")} }
    /\ processEnv \in InheritedEnvs
    /\ fsExe = TRUE
    /\ fsDirs = {"/ws"}
    /\ InitRuns

NextEnv == \E i \in Runs : Trigger(i) \/ AfterSetup(i)

SpecEnv == InitEnv /\ [][NextEnv]_vars

(***************************************************************************)
(* Properties.                                                             *)
(***************************************************************************)
\* the notifications of kind k in a sequence of notifications
OfKind(ns, k) == SelectSeq(ns, LAMBDA n : n.kind = k)

\* the terminal outcomes a run has reported: Success, Failure (by exit code
\* or by launch error) and Cancelled
Outcomes(ns) ==
    SelectSeq(ns, LAMBDA n : n.kind \in {"success", "exitCode", "launchError", "cancelled"})

\* a terminating event of run i has been handled: 'error', 'close' or the
\* cancellation request
Terminated(i) == cancelRequested[i] \/ child[i] \in {"errored", "closed"}

\* the spawn of run i failed
LaunchFailed(i) ==
    \/ child[i] \in {"spawnError", "errored"}
    \/ child[i] = "closed" /\ exitCode[i] = SpawnErrorCode

\* C1: a run that reached the spawn step reports exactly one terminal
\* outcome: never two or more, and never none once 'close', 'error' or the
\* cancellation request has been handled.
C1_ExactlyOneOutcome ==
    \A i \in Runs :
        /\ Len(Outcomes(notes[i])) <= 1
        /\ Terminated(i) => Len(Outcomes(notes[i])) = 1

\* C2: once cancellation has been requested the run has reported Cancelled
\* exactly once and reports no Success and no Failure, neither from 'close'
\* nor from 'error'.
C2_CancelledOnly ==
    \A i \in Runs :
        cancelRequested[i] =>
            /\ Len(OfKind(notes[i], "cancelled")) = 1
            /\ Len(Outcomes(notes[i])) = 1

\* C3: when the child of a run that is not cancelled closes, code 0 gives
\* exactly one Success and no exit-code Failure, any other code gives no
\* Success and exactly one exit-code Failure that carries the code; after
\* that close the run shows no further notification and writes no further
\* line (its lines can only be cleared by another run).
C3_CloseReportsOnce ==
    [][ \A i \in Runs :
          /\ (child'[i] = "closed" /\ ~cancelRequested'[i]) =>
                LET succ == OfKind(notes'[i], "success")
                    fail == OfKind(notes'[i], "exitCode")
                IN  IF exitCode'[i] = Num(0)
                    THEN Len(succ) = 1 /\ Len(fail) = 0
                    ELSE /\ Len(succ) = 0
                         /\ Len(fail) = 1
                         /\ Contains(fail[1].detail,
                                     "(Code: " \o CodeText(exitCode'[i]) \o ")")
          /\ (child[i] = "closed" /\ ~cancelRequested[i]) =>
                /\ notes'[i] = notes[i]
                /\ log'[i] \in {log[i], << >>}
      ]_vars

\* C3: a run has closed with code 0, not cancelled, after its child wrote to
\* both streams, and has reported Success
C3_Witness ==
    \E i \in Runs :
        /\ child[i] = "closed" /\ ~cancelRequested[i] /\ exitCode[i] = Num(0)
        /\ chunks[i]["stdout"] > 0 /\ chunks[i]["stderr"] > 0
        /\ Len(OfKind(notes[i], "success")) = 1

\* C4: after a failed launch the run has reported one Failure with the
\* launch-error reason and no exit-code Failure.
C4_LaunchFailureAlone ==
    \A i \in Runs :
        (LaunchFailed(i) /\ child[i] # "spawnError") =>
            /\ Len(OfKind(notes[i], "launchError")) = 1
            /\ Len(OfKind(notes[i], "exitCode")) = 0

\* C5: at most one run is inside the bootstrap (venv creation or pip
\* install) at any time.
C5_SingleFlight ==
    Cardinality({ i \in Runs : pc[i] \in {"venv", "pip"} }) <= 1

\* C6: a call of setupPythonEnvironment made while the executable exists
\* returns true at once: no command is issued, no progress notification is
\* opened, nothing is shown or written, and the file system is unchanged, so
\* that the next call finds the same state.
C6_FastPath ==
    [][ \A i \in Runs :
          (pc[i] = "idle" /\ pc'[i] \notin {"idle", "done"} /\ fsExe) =>
              /\ pc'[i] = "setupReturned"
              /\ isSetupSuccess'[i]
              /\ execLog' = execLog
              /\ "setupProgress" \notin effects'[i]
              /\ "progressReport" \notin effects'[i]
              /\ notes' = notes
              /\ log' = log
              /\ fsExe' = fsExe /\ fsDirs' = fsDirs
      ]_vars

\* C6: two calls have taken the fast path
C6_Witness ==
    /\ fsExe
    /\ \E i, j \in Runs :
         /\ i # j
         /\ \A r \in {i, j} :
              /\ pc[r] = "setupReturned" /\ isSetupSuccess[r]
              /\ execLog[r] = << >> /\ "setupProgress" \notin effects[r]

\* C7: with no active editor or no workspace folder, a triggered command has
\* shown one error and is over, having read no configuration and no
\* environment, started no bootstrap, created no directory and spawned
\* nothing.
C7_PreconditionAbort ==
    (NoEditor \/ workspaceFolders = Undefined) =>
        \A i \in Runs :
            /\ pc[i] \in {"idle", "done"}
            /\ pc[i] = "done" =>
                 /\ Len(notes[i]) = 1
                 /\ notes[i][1].level = "error"
                 /\ notes[i][1].kind = IF NoEditor THEN "noEditor" ELSE "noWorkspace"
            /\ effects[i] = {}
            /\ inv[i] = None
            /\ execLog[i] = << >>
            /\ log[i] = << >>
            /\ child[i] = "none" /\ spawnOpts[i] = None

\* C7: the command was triggered with an editor but without a workspace
C7_Witness ==
    /\ ~NoEditor /\ workspaceFolders = Undefined
    /\ \E i \in Runs : pc[i] = "done" /\ Len(notes[i]) = 1

\* neither the setting nor any of the seven variables holds a non-empty value
NoCredential ==
    /\ ~Truthy(config.apiKey)
    /\ \A k \in 1..Len(possibleEnvKeys) : ~Truthy(processEnv[possibleEnvKeys[k]])

\* C8: with an editor and a workspace but no credential, a triggered
\* command has shown the configuration error and is over, having started no
\* bootstrap, created no directory and spawned nothing.
C8_ConfigAbort ==
    (~NoEditor /\ ~NoWorkspace /\ NoCredential) =>
        \A i \in Runs :
            /\ pc[i] \in {"idle", "done"}
            /\ pc[i] = "done" =>
                 /\ Len(notes[i]) = 1
                 /\ notes[i][1].level = "error"
                 /\ notes[i][1].kind = "noApiKey"
            /\ effects[i] \subseteq {"config", "env"}
            /\ execLog[i] = << >>
            /\ log[i] = << >>
            /\ child[i] = "none" /\ spawnOpts[i] = None

\* C8: the command was triggered with an empty setting and empty variables
C8_Witness ==
    /\ ~NoEditor /\ ~NoWorkspace
    /\ config.apiKey = Str("") /\ processEnv["OPENAI_API_KEY"] = Str("")
    /\ \E i \in Runs : pc[i] = "done" /\ Len(notes[i]) = 1

\* C9: the credential a run resolved is the apiKey setting when that is
\* non-empty, and otherwise the value of the first non-empty variable in the
\* order of possibleEnvKeys.
C9_CredentialOrder ==
    \A i \in Runs :
        inv[i] # None =>
            /\ Truthy(config.apiKey) => inv[i].apiKey = config.apiKey
            /\ ~Truthy(config.apiKey) =>
                 \A k \in 1..Len(possibleEnvKeys) :
                     ( /\ Truthy(processEnv[possibleEnvKeys[k]])
                       /\ \A j \in 1..(k - 1) : ~Truthy(processEnv[possibleEnvKeys[j]]) )
                     => inv[i].apiKey = processEnv[possibleEnvKeys[k]]

\* C9: a run resolved the credential from DEEPSEEK_API_KEY although the
\* later QODO_API_KEY is set too, the setting and OPENAI_API_KEY being empty
C9_Witness ==
    /\ config.apiKey = Str("")
    /\ processEnv["OPENAI_API_KEY"] = Str("")
    /\ processEnv["FIREWORKS_AI_API_KEY"] = Undefined
    /\ Truthy(processEnv["DEEPSEEK_API_KEY"])
    /\ Truthy(processEnv["QODO_API_KEY"])
    /\ \E i \in Runs : inv[i] # None /\ inv[i].apiKey = processEnv["DEEPSEEK_API_KEY"]

RECURSIVE Verbatim(_, _, _)
\* one left-to-right pass over the template s from position i that replaces
\* each occurrence of a token of ctx by its value, copied as it is; the
\* inserted text is not looked at again
Verbatim(s, i, ctx) ==
    LET at == { IndexOf(s, t, i) : t \in DOMAIN ctx } \ {0}
    IN  IF at = {} THEN StrFrom(s, i)
        ELSE LET m == Least(at)
                 t == CHOOSE t \in DOMAIN ctx : StartsWithAt(s, m, t)
             IN  SubSeq(s, i, m - 1) \o ctx[t] \o Verbatim(s, m + Len(t), ctx)

\* the tokens of the path templates and their values for run i
PathContext(i) ==
    [t \in {TokRelativeFilePath, TokFileName, TokSourceDir} |->
        IF t = TokRelativeFilePath THEN inv[i].sourceRelPath
        ELSE IF t = TokFileName THEN inv[i].fileName
        ELSE inv[i].sourceDir]

\* the tokens of the test command template and their values for run i
CommandContext(i) ==
    [t \in {TokTestFilePath, TokSourceDir} |->
        IF t = TokTestFilePath THEN inv[i].finalTestPath ELSE inv[i].sourceDir]

\* C10: each resolved string is its template with every token occurrence
\* replaced by the token's value as it is; a token string inside an
\* inserted value stays in the result.
C10_NoReSubstitution ==
    \A i \in Runs :
        inv[i] # None =>
            /\ inv[i].finalSourcePath = Verbatim(inv[i].sourcePathTpl, 1, PathContext(i))
            /\ inv[i].finalTestPath = Verbatim(inv[i].testPathTpl, 1, PathContext(i))
            /\ inv[i].finalTestCommand = Verbatim(inv[i].testCmdTpl, 1, CommandContext(i))

(***************************************************************************)
(* The specification of the coverage argument: a POSIX host with a         *)
(* credential; the desiredCoverage setting is unset, in the documented      *)
(* range, negative or above 100, and the executable is installed or not.    *)
(***************************************************************************)
CoverageSettings == { Undefined, Num(0), Num(80), Num(100), Num(0 - 5), Num(150) }

InitArgs ==
    /\ isWindows = FALSE
    /\ extensionPath = "/ext"
    /\ editor = Str("/ws/app/calc.py")
    /\ workspaceFolders = Str("/ws")
    /\ config \in { [NoSettings EXCEPT !.apiKey = Str("sk-setting"),
                                       !.desiredCoverage = c]
                      : c \in CoverageSettings }
    /\ processEnv = [NoEnv EXCEPT !["PATH"] = Str("/usr/bin")]
    /\ fsExe \in BOOLEAN
    /\ fsDirs = {"/ws"}
    /\ InitRuns

SpecArgs == InitArgs /\ [][NextBoot]_vars

\* the orders in which the three substitutions of a path template can be
\* applied; the first is the order of src/src/extension.ts:123-131
TokenOrders ==
    { << TokRelativeFilePath, TokFileName, TokSourceDir >>,
      << TokRelativeFilePath, TokSourceDir, TokFileName >>,
      << TokFileName, TokRelativeFilePath, TokSourceDir >>,
      << TokFileName, TokSourceDir, TokRelativeFilePath >>,
      << TokSourceDir, TokRelativeFilePath, TokFileName >>,
      << TokSourceDir, TokFileName, TokRelativeFilePath >> }

\* the chain of global replacements applied to tpl in the order given
ResolveInOrder(tpl, order, ctx) ==
    ReplaceAll(ReplaceAll(ReplaceAll(tpl, order[1], ctx[order[1]]),
                          order[2], ctx[order[2]]),
               order[3], ctx[order[3]])

\* C11: the resolved source path and the resolved test path of a run are
\* what the three substitutions give in every one of their six orders.
C11_OrderIndependent ==
    \A i \in Runs :
        inv[i] # None =>
            \A order \in TokenOrders :
                /\ inv[i].finalSourcePath =
                       ResolveInOrder(inv[i].sourcePathTpl, order, PathContext(i))
                /\ inv[i].finalTestPath =
                       ResolveInOrder(inv[i].testPathTpl, order, PathContext(i))

\* the absolute path p lies inside the directory root or is root itself
Inside(root, p, win) ==
    LET r == PathSegs(root, win)
        q == PathSegs(p, win)
    IN  /\ Device(root, win) = Device(p, win)
        /\ Len(r) <= Len(q)
        /\ SubSeq(q, 1, Len(r)) = r

\* the file the executable is told to write: --test-file-path, taken
\* relative to the working directory of the child (cwd: workspaceRoot)
TestFileAbs(i) == PathJoin(inv[i].workspaceRoot, inv[i].finalTestPath, isWindows)

\* C12: the resolved test path of a run lies inside the workspace root, and
\* so does the test directory once the run has looked at it or created it.
C12_InsideWorkspace ==
    \A i \in Runs :
        inv[i] # None =>
            /\ Inside(inv[i].workspaceRoot, TestFileAbs(i), isWindows)
            /\ (pc[i] \in {"spawned", "done"} /\ isSetupSuccess[i]) =>
                   Inside(inv[i].workspaceRoot, testDirAbs(i), isWindows)

\* a run with an open file inside the workspace has created a directory
\* outside the workspace root
C12_CreatedOutside ==
    \E i \in Runs :
        /\ inv[i] # None
        /\ Inside(inv[i].workspaceRoot, FsPath(editor), isWindows)
        /\ "mkdir" \in effects[i]
        /\ testDirAbs(i) \in fsDirs
        /\ ~Inside(inv[i].workspaceRoot, testDirAbs(i), isWindows)

\* C13: once cancellation has been requested for a run, its child
\* eventually ends (its 'close' event is delivered).
C13_EventuallyTerminated ==
    \A i \in Runs : cancelRequested[i] ~> (child[i] = "closed")

\* C14: with the default templates, a run on the file named f in the
\* directory d below the workspace root resolves the source path d/f, the
\* test path tests/test_f and the default test command on them, d being
\* written with forward slashes on either platform.
C14_DefaultLayout ==
    \A i \in Runs, d \in LayoutDirs, f \in LayoutNames :
        (inv[i] # None /\ editor = Str(LayoutFile(d, f, isWindows))) =>
            LET D == JoinWith(d, "/")
            IN  /\ inv[i].finalSourcePath = D \o "/" \o f
                /\ inv[i].finalTestPath = "tests/test_" \o f
                /\ inv[i].finalTestCommand =
                       "pytest tests/test_" \o f \o " --cov=" \o D
                           \o " --cov-branch --cov-report=xml --cov-report=html"

\* C15: whenever a run calls spawn, the executable exists at coverAgentPath.
C15_ExecutableAtSpawn ==
    [][ \A i \in Runs :
          (pc[i] = "setupReturned" /\ pc'[i] = "spawned") => fsExe
      ]_vars

\* run i has called spawn
Spawned(i) == spawnOpts[i] # None

\* C16: a run that has called spawn had a true result from the bootstrap
\* and its test directory exists; a run whose bootstrap has not returned
\* true has neither tried to create the test directory nor called spawn; a
\* run whose directory creation failed has shown that error, is over and
\* has not called spawn.
C16_SpawnAfterSetupAndDir ==
    \A i \in Runs :
        /\ Spawned(i) <=> child[i] # "none"
        /\ Spawned(i) <=> "spawn" \in effects[i]
        /\ Spawned(i) => /\ isSetupSuccess[i]
                          /\ testDirAbs(i) \in fsDirs
                          /\ Len(OfKind(notes[i], "mkdirError")) = 0
        /\ ~isSetupSuccess[i] => /\ "mkdirTried" \notin effects[i]
                                  /\ ~Spawned(i)
        /\ ("mkdirTried" \in effects[i] /\ "mkdir" \notin effects[i]) =>
               /\ Len(OfKind(notes[i], "mkdirError")) = 1
               /\ pc[i] = "done"
               /\ ~Spawned(i)

\* C16: one run has spawned its child after a completed bootstrap and the
\* creation of its test directory, another is over after a failed bootstrap
C16_Witness ==
    \E i, j \in Runs :
        /\ Spawned(i) /\ Len(execLog[i]) = 2 /\ "mkdir" \in effects[i]
        /\ pc[j] = "done" /\ Len(OfKind(notes[j], "setupError")) = 1 /\ ~Spawned(j)

\* C17: the environment a run hands to spawn holds OPENAI_API_KEY = the
\* resolved credential and OPENAI_BASE_URL = the baseUrl setting or, when
\* that is unset or empty, the default URL; every other variable is as in
\* process.env; and no step changes process.env.
C17_ChildEnvironment ==
    [][ /\ processEnv' = processEnv
        /\ \A i \in Runs :
              Spawned(i)' =>
                  LET env == spawnOpts'[i].env
                  IN  /\ DOMAIN env = EnvNames
                      /\ env["OPENAI_API_KEY"] =
                             (IF Truthy(config.apiKey) THEN config.apiKey
                              ELSE EnvKeyLoop(processEnv, 1))
                      /\ Truthy(env["OPENAI_API_KEY"])
                      /\ env["OPENAI_BASE_URL"] =
                             (IF Truthy(config.baseUrl) THEN config.baseUrl
                              ELSE Str("https://api.deepseek.com"))
                      /\ \A n \in EnvNames \ {"OPENAI_API_KEY", "OPENAI_BASE_URL"} :
                             env[n] = processEnv[n]
      ]_vars

\* C17: a run has spawned its child with both variables overriding values
\* that process.env already held, next to an inherited QODO_API_KEY
C17_Witness ==
    \E i \in Runs :
        /\ Spawned(i)
        /\ processEnv["OPENAI_API_KEY"] = Str("sk-inherited")
        /\ spawnOpts[i].env["OPENAI_API_KEY"] = Str("sk-setting")
        /\ processEnv["OPENAI_BASE_URL"] = Str("https://inherited.example")
        /\ spawnOpts[i].env["OPENAI_BASE_URL"] = Str("https://proxy.example/v1")
        /\ spawnOpts[i].env["QODO_API_KEY"] = Str("sk-qodo")

\* the chunks of one stream that the lines hold, in the order they hold them
ChunksIn(lines, stream) ==
    LET sel == SelectSeq(lines, LAMBDA l : l.src = stream)
    IN  [k \in 1..Len(sel) |-> sel[k].text]

\* the chunks number from..to of a stream, in the order the stream
\* produced them
Produced(from, to) == [k \in 1..(to - from + 1) |-> NumToString(from + k - 1)]

\* C18: for each stream of each run, the chunks in the output channel are
\* the chunks the stream has produced, in the order it produced them: all of
\* them while no other run has started its child (and with that cleared the
\* channel), and in any case the last ones without a gap.
C18_StreamOrder ==
    \A i \in Runs, stream \in {"stdout", "stderr"} :
        LET got == ChunksIn(log[i], stream)
            n   == chunks[i][stream]
        IN  /\ Len(got) <= n
            /\ got = Produced(n - Len(got) + 1, n)
            /\ (\A j \in Runs \ {i} : pc[j] # "spawned") => got = Produced(1, n)

\* C18: both streams of a run have delivered two chunks each, a chunk of
\* stderr lying between the two chunks of stdout, and all four are in the
\* output channel
C18_Witness ==
    \E i \in Runs :
        /\ ChunksIn(log[i], "stdout") = << "1", "2" >>
        /\ ChunksIn(log[i], "stderr") = << "1", "2" >>
        /\ \E a, b, c \in 1..Len(log[i]) :
              /\ a < b /\ b < c
              /\ log[i][a].src = "stdout"
              /\ log[i][b].src = "stderr"
              /\ log[i][c].src = "stdout"

\* the element of args that follows the first element equal to flag
ArgAfter(args, flag) ==
    LET k == CHOOSE n \in 1..Len(args) :
                 /\ args[n] = flag
                 /\ \A m \in 1..(n - 1) : args[m] # flag
    IN  args[k + 1]

RECURSIVE DigitsValue(_)
\* the number a string of decimal digits denotes
DigitsValue(s) ==
    IF Len(s) = 0 THEN 0
    ELSE LET last == CharAt(s, Len(s))
             d == CHOOSE n \in 0..9 : Digit(n) = last
         IN  10 * DigitsValue(SubSeq(s, 1, Len(s) - 1)) + d

\* the integer a command-line argument denotes, with its sign
ArgValue(s) == IF Len(s) > 0 /\ CharAt(s, 1) = "-"
               THEN 0 - DigitsValue(StrFrom(s, 2))
               ELSE DigitsValue(s)

\* C19: the argument that follows --desired-coverage in the arguments of
\* every spawn denotes a percentage from 0 to 100, whatever the
\* desiredCoverage setting is.
C19_CoverageInRange ==
    \A i \in Runs :
        Spawned(i) =>
            ArgValue(ArgAfter(spawnOpts[i].args, "--desired-coverage")) \in 0..100

\* C20: once the child of a run has emitted 'close' or 'error', or the user
\* has cancelled the run, the promise that keeps the progress notification
\* open is resolved, in every order of the three events; in particular no
\* run is pending after its child has closed, the close after a
\* cancellation included.
C20_ResolvedAfterEvent ==
    \A i \in Runs :
        /\ cancelRequested[i] => resolved[i]
        /\ child[i] \in {"errored", "closed"} => resolved[i]

\* C20: a child has closed after the cancellation of its run; the 'close'
\* handler has returned early, leaving no line about the exit in the output
\* channel, and the promise is resolved
C20_Witness ==
    \E i \in Runs :
        /\ cancelRequested[i]
        /\ child[i] = "closed"
        /\ exitCode[i] # None
        /\ \A k \in 1..Len(log[i]) : log[i][k] # CloseLine(i, exitCode[i])
        /\ resolved[i]

====
